---- MODULE Spec2Model ----
(***************************************************************************)
(* OneTimeValue<T> (one_time_value.hpp): a holder of zero or one value of  *)
(* T whose consuming reads (consume, take_or) clear the slot.              *)
(*                                                                         *)
(* A std::optional<T> is modelled as a sequence of length 0 (disengaged)   *)
(* or 1 (engaged, holding its payload).  A call is modelled by the set of  *)
(* outcomes it can produce: the slot after the call, the returned value,   *)
(* the caller's argument object after the call, and whether the call ran   *)
(* into undefined behaviour or an exception.  The only nondeterminism is   *)
(* the state of a moved-from T, which C++ leaves unspecified.              *)
(***************************************************************************)
EXTENDS Integers, Sequences, FiniteSets, TLC

\* Number of distinct values of T the model draws arguments from.
NumValues == 2

\* Number of member calls made on the container after its construction.
MaxOps == 4

\* Number of concurrent callers of one container that share a lock.
NumThreads == 3

\* Number of calls made on a container and its copy between them, the copy
\* construction included.
MaxCopyOps == 3

\* Number of calls the concurrent callers make between them.
MaxCalls == 3

\* The values of T.
Values == 1..NumValues

\* The concurrent callers.
Threads == 1..NumThreads

\* The two callers that use the container without a lock.
Racers == {t \in Threads : t <= 2}

\* The container, the history of the sequential calls made on it and the
\* caller's argument object after the last of them.
VARIABLES value_, hist, arg_after

\* Concurrent callers: where each one is in its call (pc), the call it is in
\* (cur_op, cur_arg), its local tmp, and the caller-supplied lock (0: free).
VARIABLES pc, cur_op, cur_arg, tmp, lock

\* Bookkeeping for the concurrent callers, not program state: the values
\* written so far (a write is named by its index), the write the slot's
\* payload and each tmp come from (0: none), the <<write, value, caller>>
\* triples for the values handed to callers out of the slot, the number of
\* calls begun, whether two calls ever overlapped and whether a call ran into
\* undefined behaviour.
VARIABLES writes, origin, tmp_origin, taken, calls, overlapped, ub

\* A second container made by copying the first: its slot and the history of
\* the calls made on it, the copy construction first (empty: no copy yet).
VARIABLES copy_, copy_hist

seqvars == <<value_, hist, arg_after>>

copyvars == <<copy_, copy_hist>>

concvars == <<pc, cur_op, cur_arg, tmp, lock, writes, origin, tmp_origin, taken, calls,
              overlapped, ub>>

vars == <<seqvars, concvars, copyvars>>

-----------------------------------------------------------------------------
(* std::optional<T> and moved-from objects *)

\* std::nullopt: the disengaged optional.
nullopt == <<>>

\* An optional engaged with payload v.
some(v) == <<v>>

\* optional::operator bool / optional::has_value.
engaged(o) == Len(o) = 1

\* optional::operator*: the payload (defined for an engaged optional only).
deref(o) == o[1]

\* optional::operator* on a disengaged optional is undefined behaviour.
deref_ub(o) == ~engaged(o)

\* A reset() of the optional that leaves the payload in place.
opt_reset_noop(o) == o

\* optional::reset(): destroys the payload, if any.
opt_reset(o) == nullopt

\* optional::operator=(U&&): engaged with v whatever it held before.
opt_assign(o, v) == some(v)

\* The states a T may be left in after being moved from: valid, unspecified.
MovedFrom(v) == Values

\* The states an optional<T> may be left in after being moved from: a
\* disengaged one stays disengaged, an engaged one stays ENGAGED, with a
\* moved-from payload.
MovedFromOptional(o) ==
    IF engaged(o) THEN { some(m) : m \in MovedFrom(deref(o)) } ELSE { nullopt }

\* One outcome of a call.
\*   slot       value_ after the call
\*   ret        the returned T or optional<T> (nullopt for void and bool calls)
\*   flag       the returned bool (FALSE for the other calls)
\*   arg_after  the caller's argument object after the call (nullopt: no argument)
\*   fault      the call dereferenced a disengaged optional or threw
\* (The fields are listed in the order TLC keeps them in.)
Outcome(slot, ret, flag, argAfter, fault) ==
    [arg_after |-> argAfter, slot |-> slot, ret |-> ret, flag |-> flag, fault |-> fault]

-----------------------------------------------------------------------------
(* The members of OneTimeValue<T>, as functions of the slot *)

\* OneTimeValue() = default;
ctor_default == { Outcome(nullopt, nullopt, FALSE, nullopt, FALSE) }

\* OneTimeValue(const T &value) : value_(value) {}
ctor_copy(v) == { Outcome(some(v), nullopt, FALSE, some(v), FALSE) }

\* A move constructor without its member initialiser: value_ starts disengaged.
ctor_move_forgets(v) == { Outcome(nullopt, nullopt, FALSE, some(v), FALSE) }

\* OneTimeValue(T &&value) : value_(std::move(value)) {}
ctor_move(v) == { Outcome(some(v), nullopt, FALSE, some(m), FALSE) : m \in MovedFrom(v) }

\* A set that keeps a value already held instead of overwriting it.
set_copy_keep(slot, v) ==
    IF engaged(slot)
    THEN { Outcome(slot, nullopt, FALSE, some(v), FALSE) }
    ELSE { Outcome(opt_assign(slot, v), nullopt, FALSE, some(v), FALSE) }

\* void set(const T &value) { value_ = value; }
set_copy(slot, v) == { Outcome(opt_assign(slot, v), nullopt, FALSE, some(v), FALSE) }

\* A set that names the member on both sides, value_ = std::move(value_): the
\* argument is left alone and the slot keeps its presence, with a payload in
\* a moved-from state.
set_move_self(slot, v) ==
    { Outcome(moved, nullopt, FALSE, some(v), FALSE) : moved \in MovedFromOptional(slot) }

\* void set(T &&value) { value_ = std::move(value); }
set_move(slot, v) ==
    { Outcome(opt_assign(slot, v), nullopt, FALSE, some(m), FALSE) : m \in MovedFrom(v) }

\* A has_value that consumes what it observes.
has_value_consuming(slot) == { Outcome(opt_reset(slot), nullopt, engaged(slot), nullopt, FALSE) }

\* bool has_value() const noexcept { return value_.has_value(); }
has_value(slot) == { Outcome(slot, nullopt, engaged(slot), nullopt, FALSE) }

\* A consume without its value_.reset(): the slot stays engaged, moved-from.
consume_no_reset(slot) ==
    IF ~engaged(slot)
    THEN { Outcome(slot, nullopt, FALSE, nullopt, FALSE) }
    ELSE { Outcome(moved, slot, FALSE, nullopt, FALSE) :
               moved \in MovedFromOptional(slot) }

\* A consume that answers an empty slot with a value-initialised T instead of
\* std::nullopt.
consume_value_or_default(slot) ==
    IF ~engaged(slot)
    THEN { Outcome(slot, some(CHOOSE v \in Values : TRUE), FALSE, nullopt, FALSE) }
    ELSE { Outcome(opt_reset(moved), slot, FALSE, nullopt, FALSE) :
               moved \in MovedFromOptional(slot) }

\* std::optional<T> consume():
\*   if (!value_) return std::nullopt;
\*   auto tmp = std::move(value_);   // tmp holds the value, value_ is moved-from
\*   value_.reset();
\*   return tmp;
consume(slot) ==
    IF ~engaged(slot)
    THEN { Outcome(slot, nullopt, FALSE, nullopt, FALSE) }
    ELSE { Outcome(opt_reset(moved), slot, FALSE, nullopt, FALSE) :
               moved \in MovedFromOptional(slot) }

\* A take_or without its value_.reset().
take_or_no_reset(slot, d) ==
    IF engaged(slot)
    THEN { Outcome(moved, some(deref(slot)), FALSE, some(d), FALSE) :
               moved \in MovedFromOptional(slot) }
    ELSE { Outcome(slot, some(d), FALSE, some(d), FALSE) }

\* A take_or that clears the slot but returns the fallback all the same.
take_or_prefers_default(slot, d) ==
    IF engaged(slot)
    THEN { Outcome(opt_reset(moved), some(d), FALSE, some(d), FALSE) :
               moved \in MovedFromOptional(slot) }
    ELSE { Outcome(slot, some(d), FALSE, some(d), FALSE) }

\* A take_or that caches the fallback in the slot when the slot is empty.
take_or_stores_default(slot, d) ==
    IF engaged(slot)
    THEN { Outcome(opt_reset(moved), some(deref(slot)), FALSE, some(d), FALSE) :
               moved \in MovedFromOptional(slot) }
    ELSE { Outcome(opt_assign(slot, d), some(d), FALSE, some(d), FALSE) }

\* A take_or without its presence check: *value_ on a disengaged optional is
\* undefined behaviour.
take_or_unchecked(slot, d) ==
    { Outcome(nullopt, some(v), FALSE, some(d), deref_ub(slot)) :
          v \in (IF engaged(slot) THEN {deref(slot)} ELSE Values) }

\* T take_or(const T &default_value):
\*   if (value_) { T tmp = std::move(*value_); value_.reset(); return tmp; }
\*   return default_value;
take_or(slot, d) ==
    IF engaged(slot)
    THEN { Outcome(opt_reset(moved), some(deref(slot)), FALSE, some(d), deref_ub(slot)) :
               moved \in MovedFromOptional(slot) }
    ELSE { Outcome(slot, some(d), FALSE, some(d), FALSE) }

\* A reset that does nothing.
reset_noop(slot) == { Outcome(slot, nullopt, FALSE, nullopt, FALSE) }

\* void reset() noexcept { value_.reset(); }
reset(slot) == { Outcome(opt_reset(slot), nullopt, FALSE, nullopt, FALSE) }

-----------------------------------------------------------------------------
(* The container and the history of calls made on it *)

\* The record of one call: what was called with which argument (nullopt: no
\* argument), what it returned and the slot it left.
Event(op, arg, out) ==
    [ret |-> out.ret, flag |-> out.flag, fault |-> out.fault,
     op |-> op, arg |-> arg, post |-> out.slot]

\* Construction: default, from a copy of v, or from a moved v.
Construct(op, arg, outs) ==
    \E out \in outs :
        /\ value_ = out.slot
        /\ hist = << Event(op, arg, out) >>
        /\ arg_after = out.arg_after

\* No caller is in a call; a value given to the constructor is write 1.
NoCallers ==
    /\ pc = [t \in Threads |-> "idle"]
    /\ cur_op = [t \in Threads |-> "none"]
    /\ cur_arg = [t \in Threads |-> nullopt]
    /\ tmp = [t \in Threads |-> nullopt]
    /\ lock = 0
    /\ writes = IF engaged(value_) THEN <<deref(value_)>> ELSE <<>>
    /\ origin = IF engaged(value_) THEN 1 ELSE 0
    /\ tmp_origin = [t \in Threads |-> 0]
    /\ taken = <<>>
    /\ calls = 0
    /\ overlapped = FALSE
    /\ ub = FALSE

\* The container has not been copied.
NoCopy == copy_ = nullopt /\ copy_hist = <<>>

Init ==
    /\ \/ Construct("ctor_default", nullopt, ctor_default)
       \/ \E v \in Values : Construct("ctor_copy", some(v), ctor_copy(v))
       \/ \E v \in Values : Construct("ctor_move", some(v), ctor_move(v))
    /\ NoCallers
    /\ NoCopy

\* A member call with one of its outcomes.
Call(op, arg, outs) ==
    /\ Len(hist) <= MaxOps
    /\ \E out \in outs :
        /\ value_' = out.slot
        /\ hist' = Append(hist, Event(op, arg, out))
        /\ arg_after' = out.arg_after
    /\ UNCHANGED <<concvars, copyvars>>

CallSetCopy == \E v \in Values : Call("set_copy", some(v), set_copy(value_, v))

CallSetMove == \E v \in Values : Call("set_move", some(v), set_move(value_, v))

CallHasValue == Call("has_value", nullopt, has_value(value_))

CallConsume == Call("consume", nullopt, consume(value_))

CallTakeOr == \E d \in Values : Call("take_or", some(d), take_or(value_, d))

CallReset == Call("reset", nullopt, reset(value_))

Next ==
    \/ CallSetCopy
    \/ CallSetMove
    \/ CallHasValue
    \/ CallConsume
    \/ CallTakeOr
    \/ CallReset

Spec == Init /\ [][Next]_vars

-----------------------------------------------------------------------------
(* Concurrent callers, one statement at a time *)

\* A call of several statements on one container, each statement one step:
\*   consume   "check"  if (!value_) return std::nullopt;
\*             "move"   auto tmp = std::move(value_);
\*             "clear"  value_.reset();
\*             "return" return tmp;
\*   take_or   "check"  if (value_) { ... } return default_value;
\*             "move"   T tmp = std::move(*value_);
\*             "clear"  value_.reset();
\*             "return" return tmp;
\*   set       "assign" value_ = value;
\*   reset     "clear"  value_.reset();
\* Unsynchronised calls race on value_; the interleavings of the statements
\* are the outcomes taken for that race.

\* The first statement of a call.
FirstStep(op) ==
    CASE op \in {"consume", "take_or"} -> "check"
      [] op \in {"set_copy", "set_move"} -> "assign"
      [] op = "reset" -> "clear"

\* Caller t enters a call.
Enter(t, op, arg) ==
    /\ pc[t] = "idle"
    /\ calls < MaxCalls
    /\ calls' = calls + 1
    /\ pc' = [pc EXCEPT ![t] = FirstStep(op)]
    /\ cur_op' = [cur_op EXCEPT ![t] = op]
    /\ cur_arg' = [cur_arg EXCEPT ![t] = arg]
    /\ overlapped' = (overlapped \/ \E u \in Threads \ {t} : pc[u] # "idle")
    /\ UNCHANGED <<seqvars, copyvars, tmp, writes, origin, tmp_origin, taken, ub>>

\* The calls a caller can make.
Enters(t) ==
    \/ \E v \in Values : Enter(t, "set_copy", some(v))
    \/ \E v \in Values : Enter(t, "set_move", some(v))
    \/ Enter(t, "consume", nullopt)
    \/ \E d \in Values : Enter(t, "take_or", some(d))
    \/ Enter(t, "reset", nullopt)

\* Caller t enters a call without any synchronisation.
Begin(t) == Enters(t) /\ UNCHANGED lock

\* Caller t takes the caller-supplied lock and enters a call under it.
LockedBegin(t) == lock = 0 /\ lock' = t /\ Enters(t)

\* Caller t leaves its call, releasing the lock if it holds it.
Leave(t) ==
    /\ pc' = [pc EXCEPT ![t] = "idle"]
    /\ cur_op' = [cur_op EXCEPT ![t] = "none"]
    /\ cur_arg' = [cur_arg EXCEPT ![t] = nullopt]
    /\ tmp' = [tmp EXCEPT ![t] = nullopt]
    /\ tmp_origin' = [tmp_origin EXCEPT ![t] = 0]
    /\ lock' = IF lock = t THEN 0 ELSE lock

\* if (!value_) return std::nullopt;  /  if (value_) {...} return default_value;
StepCheck(t) ==
    /\ pc[t] = "check"
    /\ IF engaged(value_)
       THEN /\ pc' = [pc EXCEPT ![t] = "move"]
            /\ UNCHANGED <<cur_op, cur_arg, tmp, tmp_origin, lock>>
       ELSE Leave(t)
    /\ UNCHANGED <<seqvars, copyvars, writes, origin, taken, calls, overlapped, ub>>

\* consume: auto tmp = std::move(value_);  the optional is moved, so tmp is
\* engaged only if value_ still is.
\* take_or: T tmp = std::move(*value_);  the payload is moved; on a slot that
\* was cleared since the check this reads no object at all.
StepMove(t) ==
    /\ pc[t] = "move"
    /\ pc' = [pc EXCEPT ![t] = "clear"]
    /\ \E moved \in MovedFromOptional(value_) : value_' = moved
    /\ IF cur_op[t] = "take_or" /\ deref_ub(value_)
       THEN /\ \E v \in Values : tmp' = [tmp EXCEPT ![t] = some(v)]
            /\ ub' = TRUE
       ELSE /\ tmp' = [tmp EXCEPT ![t] = value_]
            /\ ub' = ub
    /\ tmp_origin' = [tmp_origin EXCEPT ![t] = origin]
    /\ UNCHANGED <<hist, arg_after, copyvars, cur_op, cur_arg, lock, writes, origin, taken, calls,
                   overlapped>>

\* value_.reset();  the whole of reset(), the third statement of a read.
StepClear(t) ==
    /\ pc[t] = "clear"
    /\ value_' = opt_reset(value_)
    /\ origin' = IF engaged(value_') THEN origin ELSE 0
    /\ IF cur_op[t] = "reset"
       THEN Leave(t)
       ELSE /\ pc' = [pc EXCEPT ![t] = "return"]
            /\ UNCHANGED <<cur_op, cur_arg, tmp, tmp_origin, lock>>
    /\ UNCHANGED <<hist, arg_after, copyvars, writes, taken, calls, overlapped, ub>>

\* return tmp;  a present result is a value handed out of the slot.
StepReturn(t) ==
    /\ pc[t] = "return"
    /\ taken' = IF engaged(tmp[t])
                THEN Append(taken, <<tmp_origin[t], deref(tmp[t]), t>>)
                ELSE taken
    /\ Leave(t)
    /\ UNCHANGED <<seqvars, copyvars, writes, origin, calls, overlapped, ub>>

\* value_ = value;  /  value_ = std::move(value);
StepAssign(t) ==
    /\ pc[t] = "assign"
    /\ value_' = opt_assign(value_, deref(cur_arg[t]))
    /\ writes' = Append(writes, deref(cur_arg[t]))
    /\ origin' = Len(writes')
    /\ Leave(t)
    /\ UNCHANGED <<hist, arg_after, copyvars, taken, calls, overlapped, ub>>

\* One statement of caller t's call.
Step(t) ==
    \/ StepCheck(t)
    \/ StepMove(t)
    \/ StepClear(t)
    \/ StepReturn(t)
    \/ StepAssign(t)

RaceNext == \E t \in Racers : Begin(t) \/ Step(t)

LockedNext == \E t \in Threads : LockedBegin(t) \/ Step(t)

\* Callers that use the container without synchronisation.
SpecRace == Init /\ [][RaceNext]_vars

\* Callers that hold one lock for the whole of every call.
SpecLocked == Init /\ [][LockedNext]_vars

-----------------------------------------------------------------------------
(* A container and its copy *)

\* A copy constructor that takes the value over, leaving the source empty.
copy_ctor_steals(src) == { Outcome(src, nullopt, FALSE, nullopt, FALSE) }

\* The implicitly generated OneTimeValue(const OneTimeValue &): the class
\* declares no copy operation, move operation or destructor, so the compiler
\* generates one that copies value_.  arg_after is the source's slot after it.
copy_ctor(src) == { Outcome(src, nullopt, FALSE, src, FALSE) }

\* The calls made so far on the two containers, the copy construction included.
CopyOps == Len(SelectSeq(hist, LAMBDA e : e.op \notin {"ctor_default", "ctor_copy", "ctor_move", "copied"}))
           + Len(copy_hist)

\* The container is copied, once: the copy records where it came from and the
\* source records that it was copied and what that left in its slot.
CopyConstruct ==
    /\ copy_hist = <<>>
    /\ CopyOps < MaxCopyOps
    /\ \E out \in copy_ctor(value_) :
        /\ copy_' = out.slot
        /\ copy_hist' = << Event("copy_ctor", value_, out) >>
        /\ value_' = out.arg_after
        /\ hist' = Append(hist, Event("copied", nullopt,
                                      Outcome(out.arg_after, nullopt, FALSE, nullopt, FALSE)))
        /\ arg_after' = out.arg_after
    /\ UNCHANGED concvars

\* A member call on the original.
CallOnOriginal == CopyOps < MaxCopyOps /\ Next

\* A member call on the copy with one of its outcomes.
CopyCall(op, arg, outs) ==
    /\ copy_hist # <<>>
    /\ CopyOps < MaxCopyOps
    /\ \E out \in outs :
        /\ copy_' = out.slot
        /\ copy_hist' = Append(copy_hist, Event(op, arg, out))
        /\ arg_after' = out.arg_after
    /\ UNCHANGED <<value_, hist, concvars>>

CallOnCopy ==
    \/ \E v \in Values : CopyCall("set_copy", some(v), set_copy(copy_, v))
    \/ \E v \in Values : CopyCall("set_move", some(v), set_move(copy_, v))
    \/ CopyCall("has_value", nullopt, has_value(copy_))
    \/ CopyCall("consume", nullopt, consume(copy_))
    \/ \E d \in Values : CopyCall("take_or", some(d), take_or(copy_, d))
    \/ CopyCall("reset", nullopt, reset(copy_))

CopyNext ==
    \/ CopyConstruct
    \/ CallOnOriginal
    \/ CallOnCopy

\* A container, one copy of it, and calls on both.
SpecCopy == Init /\ [][CopyNext]_vars

-----------------------------------------------------------------------------
(* Vocabulary for the properties *)

N == Len(hist)

\* The slot a call found: the slot its predecessor left.
Pre(i) == hist[i - 1].post

IsCtor(e) == e.op \in {"ctor_default", "ctor_copy", "ctor_move"}

IsSet(e) == e.op \in {"set_copy", "set_move"}

\* A write places its argument in the slot.
IsWrite(e) == e.op \in {"ctor_copy", "ctor_move", "set_copy", "set_move"}

IsRead(e) == e.op \in {"consume", "take_or"}

\* Call i is a consuming read that returned the stored value.
ReturnedStored(i) ==
    /\ i >= 2
    /\ IsRead(hist[i])
    /\ engaged(Pre(i))
    /\ engaged(hist[i].ret)

\* Call i is a consuming read that found the slot empty and said so: the empty
\* indicator from consume, the caller's fallback from take_or.
ReportedEmpty(i) ==
    /\ i >= 2
    /\ ~engaged(Pre(i))
    /\ \/ hist[i].op = "consume" /\ hist[i].ret = nullopt
       \/ hist[i].op = "take_or" /\ hist[i].ret = hist[i].arg

TypeOK ==
    /\ value_ \in {nullopt} \cup { some(v) : v \in Values }
    /\ N \in 1..(MaxOps + 1)
    /\ IsCtor(hist[1])
    /\ \A i \in 2..N : ~IsCtor(hist[i])
    /\ value_ = hist[N].post

-----------------------------------------------------------------------------
(* Properties *)

\* has_value() called on the given slot answers b.
HasValueIs(slot, b) == \A out \in has_value(slot) : out.flag = b

\* No write lies strictly between calls w and r.
NoWriteBetween(w, r) == \A k \in (w + 1)..(r - 1) : ~IsWrite(hist[k])

\* The consuming reads that returned the value placed by write w.
ReadsOf(w) == { r \in (w + 1)..N : ReturnedStored(r) /\ NoWriteBetween(w, r) }

\* C1: each value placed by a constructor or by set() is returned as the stored
\* value by at most one consuming read (consume and take_or in any mix); of two
\* consuming reads in a row, the first returns the value, if any, and empties
\* the slot, and the second finds the slot empty whatever the first returned.
C1_OneTimeContract ==
    /\ \A w \in 1..N : IsWrite(hist[w]) => Cardinality(ReadsOf(w)) <= 1
    /\ \A i \in 2..(N - 1) :
          (IsRead(hist[i]) /\ IsRead(hist[i + 1])) =>
              /\ engaged(Pre(i)) => hist[i].ret = Pre(i)
              /\ ~engaged(Pre(i)) => ReportedEmpty(i)
              /\ hist[i].post = nullopt
              /\ ReportedEmpty(i + 1)
              /\ hist[i + 1].post = nullopt

\* A value was set, returned by a take_or and then missed by a consume.
C1_Witness ==
    \E i \in 2..(N - 2) :
        /\ IsSet(hist[i])
        /\ hist[i + 1].op = "take_or" /\ ReturnedStored(i + 1)
        /\ hist[i + 1].ret = hist[i].arg
        /\ hist[i + 2].op = "consume" /\ hist[i + 2].ret = nullopt

\* C2: consume() on a container holding v, from construction or from set,
\* returns a present result equal to v and leaves the slot empty: has_value()
\* is false once the call has returned.
C2_ConsumeReturnsAndClears ==
    \A i \in 2..N :
        (hist[i].op = "consume" /\ engaged(Pre(i))) =>
            /\ IsWrite(hist[i - 1]) => hist[i].ret = hist[i - 1].arg
            /\ hist[i].ret = Pre(i)
            /\ hist[i].post = nullopt
            /\ HasValueIs(hist[i].post, FALSE)

\* One history consumes a constructor's value and then a set value.
C2_Witness ==
    /\ N = 4
    /\ hist[1].op = "ctor_move"
    /\ hist[2].op = "consume" /\ hist[2].ret = hist[1].arg
    /\ IsSet(hist[3])
    /\ hist[4].op = "consume" /\ hist[4].ret = hist[3].arg

\* The result of read j is the empty indicator, the read's own fallback, or
\* the argument of a write made after call i.
FromAfter(i, j) ==
    \/ hist[j].ret = nullopt
    \/ hist[j].op = "take_or" /\ hist[j].ret = hist[j].arg
    \/ \E k \in (i + 1)..(j - 1) : IsWrite(hist[k]) /\ hist[j].ret = hist[k].arg

\* C3: from any prior state, set(a) followed immediately by set(b) followed by
\* consume() returns b; the overwritten a is discarded: no read from then on
\* takes it out of the slot (a read returns a only as a value set after it or
\* as the read's own fallback).
C3_Overwrite ==
    \A i \in 2..(N - 2) :
        (IsSet(hist[i]) /\ IsSet(hist[i + 1]) /\ hist[i + 2].op = "consume") =>
            /\ hist[i + 2].ret = hist[i + 1].arg
            /\ \A j \in (i + 2)..N : IsRead(hist[j]) => FromAfter(i, j)

\* set(a), set(b) with a # b on a populated container, then a consume that
\* returns b and a second read that finds nothing.
C3_Witness ==
    /\ N = 5
    /\ IsWrite(hist[1])
    /\ hist[2].op = "set_copy" /\ hist[3].op = "set_move"
    /\ hist[2].arg # hist[3].arg
    /\ hist[4].op = "consume" /\ hist[4].ret = hist[3].arg
    /\ hist[5].op = "consume" /\ hist[5].ret = nullopt

\* C4: take_or(d) on a container holding v returns v, not d, and leaves the
\* container empty, so that a consume() right after it returns the empty
\* indicator; d is neither stored in the slot nor modified.
C4_TakeOrPopulated ==
    /\ \A i \in 2..N :
          (hist[i].op = "take_or" /\ engaged(Pre(i))) =>
              /\ hist[i].ret = Pre(i)
              /\ hist[i].post = nullopt
              /\ (i < N /\ hist[i + 1].op = "consume") => hist[i + 1].ret = nullopt
    /\ hist[N].op = "take_or" => arg_after = hist[N].arg

\* take_or(d) on a container holding v # d, then consume.
C4_Witness ==
    \E i \in 2..(N - 1) :
        /\ hist[i].op = "take_or" /\ engaged(Pre(i))
        /\ hist[i].arg # Pre(i)
        /\ hist[i].ret = Pre(i)
        /\ hist[i + 1].op = "consume"

\* C5: take_or(d) on an empty container returns exactly d and does not
\* populate the container: has_value() stays false and a consume() after it
\* returns the empty indicator.
C5_TakeOrEmpty ==
    \A i \in 2..N :
        (hist[i].op = "take_or" /\ ~engaged(Pre(i))) =>
            /\ hist[i].ret = hist[i].arg
            /\ hist[i].post = nullopt
            /\ HasValueIs(hist[i].post, FALSE)
            /\ (i < N /\ hist[i + 1].op = "has_value") => hist[i + 1].flag = FALSE
            /\ (i < N /\ hist[i + 1].op = "consume") => hist[i + 1].ret = nullopt

\* take_or on an empty container, then has_value, then consume.
C5_Witness ==
    \E i \in 2..(N - 2) :
        /\ hist[i].op = "take_or" /\ ~engaged(Pre(i))
        /\ hist[i + 1].op = "has_value"
        /\ hist[i + 2].op = "consume"

\* C6: consume() on an empty container returns the empty indicator and leaves
\* has_value() false, however the container became empty (default
\* construction, consume, take_or or reset), and a repeated call is the same
\* call again: same result, same state.
C6_IdempotentEmptiness ==
    \A i \in 2..N :
        hist[i].op = "consume" =>
            /\ (~engaged(Pre(i)) \/ hist[i - 1].op \in {"ctor_default", "consume", "take_or", "reset"}) =>
                  /\ hist[i].ret = nullopt
                  /\ hist[i].post = nullopt
                  /\ HasValueIs(hist[i].post, FALSE)
            /\ (i < N /\ hist[i + 1].op = "consume") =>
                  /\ hist[i + 1].ret = nullopt
                  /\ hist[i + 1].post = hist[i].post
                  /\ (i + 1 < N /\ hist[i + 2].op = "consume") => hist[i + 2] = hist[i + 1]

\* A populated container is reset and then consumed three times.
C6_Witness ==
    /\ N = 5
    /\ engaged(hist[1].post)
    /\ hist[2].op = "reset"
    /\ \A i \in 3..5 : hist[i].op = "consume" /\ hist[i].ret = nullopt

\* C7: reset() empties the slot from either state: after it has_value() is
\* false and a consume() returns the empty indicator, and the discarded value
\* is not taken out of the slot by any later read.
C7_Reset ==
    \A i \in 2..N :
        hist[i].op = "reset" =>
            /\ hist[i].post = nullopt
            /\ HasValueIs(hist[i].post, FALSE)
            /\ (i < N /\ hist[i + 1].op = "has_value") => hist[i + 1].flag = FALSE
            /\ (i < N /\ hist[i + 1].op = "consume") => hist[i + 1].ret = nullopt
            /\ \A j \in (i + 1)..N : IsRead(hist[j]) => FromAfter(i, j)

\* reset on a populated container, then consume; reset on the empty one.
C7_Witness ==
    \E i \in 2..(N - 2) :
        /\ hist[i].op = "reset" /\ engaged(Pre(i))
        /\ hist[i + 1].op = "consume" /\ hist[i + 1].ret = nullopt
        /\ hist[i + 2].op = "reset" /\ value_ = nullopt

\* C8: from any prior state, after set(v) has_value() is true; after a further
\* consume() has_value() is false.
C8_SetThenConsume ==
    \A i \in 2..N :
        IsSet(hist[i]) =>
            /\ HasValueIs(hist[i].post, TRUE)
            /\ (i < N /\ hist[i + 1].op = "has_value") => hist[i + 1].flag = TRUE
            /\ (i < N /\ hist[i + 1].op = "consume") =>
                  /\ HasValueIs(hist[i + 1].post, FALSE)
                  /\ (i + 1 < N /\ hist[i + 2].op = "has_value") => hist[i + 2].flag = FALSE

\* set on an empty container, has_value, consume, has_value.
C8_Witness ==
    /\ N = 5
    /\ hist[1].op = "ctor_default"
    /\ hist[2].op = "set_move"
    /\ hist[3].op = "has_value" /\ hist[3].flag = TRUE
    /\ hist[4].op = "consume"
    /\ hist[5].op = "has_value" /\ hist[5].flag = FALSE

\* The outcomes of a member call, by name.
Outcomes(op, arg, slot) ==
    CASE op = "set_copy" -> set_copy(slot, deref(arg))
      [] op = "set_move" -> set_move(slot, deref(arg))
      [] op = "has_value" -> has_value(slot)
      [] op = "consume" -> consume(slot)
      [] op = "take_or" -> take_or(slot, deref(arg))
      [] op = "reset" -> reset(slot)

NotHasValue(e) == e.op # "has_value"

\* The calls es[k], es[k+1], ... made in this order on a container whose slot
\* is `slot` can give the results recorded in es.
RECURSIVE CanReplay(_, _, _)
CanReplay(es, k, slot) ==
    \/ k > Len(es)
    \/ \E out \in Outcomes(es[k].op, es[k].arg, slot) :
          /\ Event(es[k].op, es[k].arg, out) = es[k]
          /\ CanReplay(es, k + 1, out.slot)

\* C9: has_value() is a pure query: it returns true iff the slot holds a value
\* and leaves the slot unchanged, so the calls of a history other than
\* has_value give, made without the has_value calls, the results they gave
\* with them.
C9_HasValuePure ==
    /\ \A i \in 2..N :
          hist[i].op = "has_value" =>
              /\ hist[i].flag = engaged(Pre(i))
              /\ hist[i].post = Pre(i)
    /\ CanReplay(SelectSeq(hist, NotHasValue), 2, hist[1].post)

\* has_value answers true before a consume that returns the value and false
\* after it.
C9_Witness ==
    \E i \in 2..(N - 2) :
        /\ hist[i].op = "has_value" /\ hist[i].flag = TRUE
        /\ hist[i + 1].op = "consume" /\ engaged(hist[i + 1].ret)
        /\ hist[i + 2].op = "has_value" /\ hist[i + 2].flag = FALSE

\* C10: every operation is enabled in both states and none ends in an error:
\* an empty slot is reported as the empty indicator by consume() and as the
\* fallback by take_or(), and in no other way.
C10_Total ==
    /\ N <= MaxOps =>
          /\ ENABLED CallSetCopy
          /\ ENABLED CallSetMove
          /\ ENABLED CallHasValue
          /\ ENABLED CallConsume
          /\ ENABLED CallTakeOr
          /\ ENABLED CallReset
    /\ \A i \in 1..N : ~hist[i].fault
    /\ \A i \in 2..N : (IsRead(hist[i]) /\ ~engaged(Pre(i))) => ReportedEmpty(i)

\* consume, take_or, has_value and reset were all called on an empty container.
C10_Witness ==
    /\ N = 5
    /\ \A i \in 1..N : hist[i].post = nullopt
    /\ \A op \in {"consume", "take_or", "has_value", "reset"} : \E i \in 2..N : hist[i].op = op

\* C11: a default-constructed container is empty (has_value() is false,
\* consume() returns the empty indicator); a container constructed from v, by
\* copy or by move, is populated with exactly v.
C11_InitialStates ==
    /\ hist[1].op = "ctor_default" =>
          /\ hist[1].post = nullopt
          /\ HasValueIs(hist[1].post, FALSE)
          /\ (N >= 2 /\ hist[2].op = "has_value") => hist[2].flag = FALSE
          /\ (N >= 2 /\ hist[2].op = "consume") => hist[2].ret = nullopt
    /\ hist[1].op \in {"ctor_copy", "ctor_move"} =>
          /\ hist[1].post = hist[1].arg
          /\ HasValueIs(hist[1].post, TRUE)
          /\ (N >= 2 /\ hist[2].op = "has_value") => hist[2].flag = TRUE
          /\ (N >= 2 /\ hist[2].op = "consume") => hist[2].ret = hist[1].arg

\* A container constructed by move is asked has_value and then consumed.
C11_Witness ==
    /\ N >= 3
    /\ hist[1].op = "ctor_move"
    /\ hist[2].op = "has_value" /\ hist[2].flag = TRUE
    /\ hist[3].op = "consume" /\ hist[3].ret = hist[1].arg

-----------------------------------------------------------------------------
(* The two-state machine {empty, populated(v)} *)

\* The abstract state a slot stands for.
Abs(slot) == IF engaged(slot) THEN <<"populated", deref(slot)>> ELSE <<"empty">>

\* The abstract transitions: set(v): any -> populated(v); consume, take_or
\* and reset: any -> empty; has_value: no change.
AbsNext(a, op, arg) ==
    CASE op \in {"set_copy", "set_move"} -> <<"populated", deref(arg)>>
      [] op \in {"consume", "take_or", "reset"} -> <<"empty">>
      [] op = "has_value" -> a

\* The abstract results: the T or optional<T> returned ...
AbsRet(a, op, arg) ==
    CASE op = "consume" -> IF a[1] = "populated" THEN some(a[2]) ELSE nullopt
      [] op = "take_or" -> IF a[1] = "populated" THEN some(a[2]) ELSE arg
      [] OTHER -> nullopt

\* ... and the bool returned.
AbsFlag(a, op) == op = "has_value" /\ a[1] = "populated"

\* C14: the container refines the two-state machine: every call takes the
\* abstract state to the one the machine gives and returns what the machine
\* gives for the abstract state and the argument, and the slot is all the
\* state there is (the slot a call finds is the slot its predecessor left).
\* Stated of the call just made, in every reachable state.
C14_RefinesTwoStateMachine ==
    /\ Abs(hist[1].post) \in {<<"empty">>} \cup { <<"populated", v>> : v \in Values }
    /\ value_ = hist[N].post
    /\ N >= 2 =>
          LET a == Abs(Pre(N)) IN
              /\ Abs(hist[N].post) = AbsNext(a, hist[N].op, hist[N].arg)
              /\ hist[N].ret = AbsRet(a, hist[N].op, hist[N].arg)
              /\ hist[N].flag = AbsFlag(a, hist[N].op)

\* empty -set-> populated -has_value-> populated -take_or-> empty -consume-> empty.
C14_Witness ==
    /\ N = 5
    /\ hist[1].op = "ctor_default"
    /\ IsSet(hist[2])
    /\ hist[3].op = "has_value"
    /\ hist[4].op = "take_or"
    /\ hist[5].op = "consume"

-----------------------------------------------------------------------------

\* consume()'s result with d substituted for the empty indicator.
OrDefault(ret, d) == IF ret = nullopt THEN some(d) ELSE ret

\* take_or(d) and consume() can do the same to a slot: whatever slot and
\* result the one can leave, the other can leave too, d standing for the
\* empty indicator.
SameEffects(slot, d) ==
    /\ \A out \in take_or(slot, d) :
          \E c \in consume(slot) : out.slot = c.slot /\ out.ret = OrDefault(c.ret, d)
    /\ \A c \in consume(slot) :
          \E out \in take_or(slot, d) : out.slot = c.slot /\ out.ret = OrDefault(c.ret, d)

\* C15: take_or(d) is consume() with d substituted for the empty indicator:
\* from every state and for every d the two leave the same, empty, slot, and
\* take_or(d) returns v exactly when consume() returns present v and d
\* exactly when consume() returns the empty indicator.  Stated of the call
\* just made, whatever slot it found: a take_or(d) did what consume() does,
\* a consume() did what take_or(d) does for every d.
C15_TakeOrIsConsumeOrDefault ==
    /\ (N >= 2 /\ hist[N].op = "take_or") =>
          /\ SameEffects(Pre(N), deref(hist[N].arg))
          /\ hist[N].post = nullopt
          /\ \E c \in consume(Pre(N)) :
                hist[N].post = c.slot /\ hist[N].ret = OrDefault(c.ret, deref(hist[N].arg))
    /\ (N >= 2 /\ hist[N].op = "consume") =>
          /\ hist[N].post = nullopt
          /\ \A d \in Values :
                /\ SameEffects(Pre(N), d)
                /\ \E out \in take_or(Pre(N), d) :
                      hist[N].post = out.slot /\ OrDefault(hist[N].ret, d) = out.ret

\* take_or(d) was called on a slot holding v # d, and on an empty slot.
C15_Witness ==
    \E i \in 2..(N - 1) :
        /\ hist[i].op = "take_or" /\ engaged(Pre(i)) /\ hist[i].arg # Pre(i)
        /\ hist[i + 1].op = "take_or" /\ hist[i + 1].ret = hist[i + 1].arg
        /\ hist[i + 1].arg # hist[i].ret

-----------------------------------------------------------------------------

\* C16: a present result of consume(), or a result of take_or() taken from
\* the slot, equals the argument of the most recent set() or value
\* constructor, and no consume(), take_or() or reset() lies between that
\* write and the read.  Stated of the read just made, in every reachable state.
C16_Provenance ==
    (N >= 2 /\ ((hist[N].op = "consume" /\ engaged(hist[N].ret)) \/ ReturnedStored(N))) =>
        \E w \in 1..(N - 1) :
            /\ IsWrite(hist[w])
            /\ hist[N].ret = hist[w].arg
            /\ \A k \in (w + 1)..(N - 1) : hist[k].op = "has_value"

\* A constructor's value is overwritten and the new one read after a has_value.
C16_Witness ==
    /\ N = 4
    /\ hist[1].op = "ctor_copy"
    /\ IsSet(hist[2]) /\ hist[2].arg # hist[1].arg
    /\ hist[3].op = "has_value"
    /\ IsRead(hist[4]) /\ hist[4].ret = hist[2].arg /\ hist[4].arg # hist[4].ret

-----------------------------------------------------------------------------

\* C17: there is no terminal state: in every reachable state every operation
\* is enabled, set(v) leads to populated(v) and consume, take_or and reset
\* lead to empty, so the container can go on alternating between empty and
\* populated (the model stops a history after MaxOps calls).
C17_NoTerminalState ==
    N <= MaxOps =>
        /\ \A v \in Values :
              /\ ENABLED (Call("set_copy", some(v), set_copy(value_, v)) /\ value_' = some(v))
              /\ ENABLED (Call("set_move", some(v), set_move(value_, v)) /\ value_' = some(v))
        /\ ENABLED (CallConsume /\ value_' = nullopt)
        /\ \A d \in Values :
              ENABLED (Call("take_or", some(d), take_or(value_, d)) /\ value_' = nullopt)
        /\ ENABLED (CallReset /\ value_' = nullopt)
        /\ ENABLED (CallHasValue /\ value_' = value_)

\* empty, populated, empty, populated, empty in one history.
C17_Witness ==
    /\ N = 5
    /\ hist[1].post = nullopt
    /\ engaged(hist[2].post)
    /\ hist[3].op = "consume" /\ hist[3].post = nullopt
    /\ engaged(hist[4].post)
    /\ hist[5].op = "take_or" /\ hist[5].post = nullopt

-----------------------------------------------------------------------------
(* Concurrent callers *)

\* No write's value was handed out of the slot twice.
AtMostOnce ==
    \A i, j \in 1..Len(taken) : i < j => taken[i][1] # taken[j][1]

\* Every value handed out of the slot is the value of a write, as written.
TakenAsWritten ==
    \A i \in 1..Len(taken) :
        /\ taken[i][1] \in 1..Len(writes)
        /\ taken[i][2] = writes[taken[i][1]]

\* C12: without mutual exclusion the read-and-clear calls race: when the
\* presence check, the move-out and the clear of two concurrent reads
\* interleave, both callers obtain the stored value (the witness), and a
\* value is handed out twice, or a cleared slot dereferenced, in no other
\* way: as long as no two calls overlapped, every value was handed out at
\* most once and as written.
C12_OnlyOverlapBreaksOnce ==
    ~overlapped => (AtMostOnce /\ TakenAsWritten /\ ~ub)

\* Two callers both hold the value of the same write, unchanged.
C12_Witness ==
    \E i, j \in 1..Len(taken) :
        /\ i < j
        /\ taken[i][1] = taken[j][1]
        /\ taken[i][3] # taken[j][3]
        /\ taken[i][2] = writes[taken[i][1]]
        /\ taken[j][2] = writes[taken[j][1]]

\* The callers inside a call.
InCall == { t \in Threads : pc[t] # "idle" }

\* C13: with one lock held for the whole of every set, consume, take_or and
\* reset, under every interleaving each stored value is returned by at most
\* one consuming read, as written: only the lock's holder is inside a call,
\* so no two calls overlap and no read finds the slot changed after its check.
C13_LockedAtMostOnce ==
    /\ AtMostOnce
    /\ TakenAsWritten
    /\ ~ub
    /\ ~overlapped
    /\ InCall = IF lock = 0 THEN {} ELSE {lock}

\* Two callers each obtained a value, the constructor's and a set one.
C13_Witness ==
    /\ Len(taken) = 2
    /\ taken[1][3] # taken[2][3]
    /\ taken[1][1] # taken[2][1]
    /\ taken[2][2] = writes[2]

-----------------------------------------------------------------------------
(* A container and its copy *)

\* Call i of history h is a consuming read that returned the stored value.
StoredRead(h, i) ==
    /\ i >= 2
    /\ IsRead(h[i])
    /\ engaged(h[i - 1].post)
    /\ engaged(h[i].ret)

\* In history h two reads that returned a stored value have a set between them.
OncePerInstance(h) ==
    \A r1, r2 \in 2..Len(h) :
        (r1 < r2 /\ StoredRead(h, r1) /\ StoredRead(h, r2)) =>
            \E k \in (r1 + 1)..(r2 - 1) : IsSet(h[k])

NotCopied(e) == e.op # "copied"

\* C18: the at-most-once guarantee is per container instance: the class keeps
\* the implicit copy operations, the copy of a container holds an equal value
\* (or is empty like it) and leaves the source as it was, the calls on each of
\* the two give what they would give were the other not there, and each of
\* the two returns its value at most once, so the same value can be returned
\* once from each (the witness).
C18_PerInstance ==
    /\ value_ = hist[N].post
    /\ CanReplay(SelectSeq(hist, NotCopied), 2, hist[1].post)
    /\ OncePerInstance(hist)
    /\ \A k \in 2..N :
          hist[k].op = "copied" =>
              /\ hist[k].post = Pre(k)
              /\ copy_hist # <<>>
              /\ copy_hist[1].arg = Pre(k)
    /\ copy_hist # <<>> =>
          /\ copy_hist[1].op = "copy_ctor"
          /\ copy_hist[1].post = copy_hist[1].arg
          /\ copy_ = copy_hist[Len(copy_hist)].post
          /\ CanReplay(copy_hist, 2, copy_hist[1].post)
          /\ OncePerInstance(copy_hist)

\* The value the container was constructed with is returned by a read of the
\* original and by a read of the copy, and both are left empty.
C18_Witness ==
    /\ N = 3
    /\ IsWrite(hist[1])
    /\ hist[2].op = "copied"
    /\ IsRead(hist[3]) /\ hist[3].ret = hist[1].arg
    /\ Len(copy_hist) = 2
    /\ copy_hist[1].post = hist[1].arg
    /\ copy_hist[2].op = "consume" /\ copy_hist[2].ret = hist[1].arg
    /\ value_ = nullopt /\ copy_ = nullopt

====
